---- MODULE Spec2Model ----
(***************************************************************************)
(* Surface / frame lifecycle of the wgpu triangle scaffold (src/main.rs).   *)
(*                                                                         *)
(* The program is a winit ApplicationHandler (App) that owns an            *)
(* Option<State>.  The host loop calls can_create_surfaces and             *)
(* window_event; each call is one atomic step of the single event-loop     *)
(* thread.  Every handler is a pure operator from the App state and its    *)
(* inputs to a result: the new App state, the ordered list of the calls it *)
(* made on the window, surface, device and queue (its "steps"), and the    *)
(* panic it ended in, if any.  The actions apply such a result.            *)
(***************************************************************************)
EXTENDS Integers, Sequences, FiniteSets, TLC

\* ---------------------------------------------------------------- bounds
MaxDim == 2        \* widths and heights range over 0..MaxDim
MaxInits == 2      \* can_create_surfaces calls explored
MaxTextures == 3   \* depth textures created (initial configure + resizes)
MaxRenders == 2    \* render calls explored

\* ---------------------------------------------------------------- values
None == <<>>
Some(x) == <<x>>
IsSome(o) == o # <<>>
Unwrap(o) == o[1]

PhysicalSize(w, h) == [width |-> w, height |-> h]
\* sizes a SurfaceResized event can carry (0 when the window is minimised)
EventSizes == {PhysicalSize(w, h) : w \in 0..MaxDim, h \in 0..MaxDim}
\* sizes window.surface_size() reports for a freshly created window
WindowSizes == {PhysicalSize(w, h) : w \in 1..MaxDim, h \in 1..MaxDim}
NoSize == PhysicalSize(0, 0)

\* surface.get_capabilities(&adapter).formats[0]
SwapchainFormats == {"Bgra8Unorm", "Rgba8Unorm"}
Depth24PlusStencil8 == "Depth24PlusStencil8"

\* Result of surface.get_current_texture(): Ok or a wgpu::SurfaceError
AcquireResults == {"Ok", "Timeout", "Outdated", "Lost", "OutOfMemory", "Other"}

\* Outcome of the fallible calls of initialisation (each is .unwrap()ed)
InitOutcomes == {"Ok", "WindowFailed", "SurfaceFailed", "AdapterUnavailable",
                 "DeviceRequestFailed"}

\* ---------------------------------------------------------------- steps
\* One call a handler makes on a collaborator, in program order.
Step(op) == [op |-> op, a |-> 0, b |-> 0]
ConfigureStep(size) == [op |-> "surface.configure", a |-> size.width, b |-> size.height]
CreateTextureStep(size) == [op |-> "create_texture", a |-> size.width, b |-> size.height]
DrawStep(vertices, instances) == [op |-> "draw", a |-> vertices, b |-> instances]

RECURSIVE Occ(_, _)
Occ(op, s) == IF s = <<>> THEN 0
              ELSE (IF Head(s).op = op THEN 1 ELSE 0) + Occ(op, Tail(s))
Has(op, s) == \E i \in 1..Len(s) : s[i].op = op
Positions(op, s) == {i \in 1..Len(s) : s[i].op = op}

CountedOps == {"create_window", "request_device", "create_render_pipeline",
               "create_buffer_init", "surface.configure", "create_texture",
               "render", "get_current_texture", "acquired", "draw", "submit",
               "pre_present_notify", "present", "request_redraw"}

Result(st, stp, panic) == [state |-> st, steps |-> stp, panic |-> panic]

\* ---------------------------------------------------------------- State
\* configure_surface configuring the surface with a fixed format instead of
\* the one the pipeline was built with.
configure_surface_fixedFormat(s, tex) ==
  [s |-> [s EXCEPT
            !.surface.config = Some([format |-> "Bgra8Unorm",
                                     width |-> s.size.width,
                                     height |-> s.size.height]),
            !.depth_texture = Some([id |-> tex,
                                    width |-> s.size.width,
                                    height |-> s.size.height,
                                    format |-> s.depth_texture_format])],
   steps |-> <<ConfigureStep(s.size), CreateTextureStep(s.size)>>]

\* State::configure_surface: apply a SurfaceConfiguration of self.size and
\* self.surface_format, then create a depth texture of self.size in
\* self.depth_texture_format and store it.  tex is the identity of the
\* texture the device hands out.
configure_surface(s, tex) ==
  [s |-> [s EXCEPT
            !.surface.config = Some([format |-> s.surface_format,
                                     width |-> s.size.width,
                                     height |-> s.size.height]),
            !.depth_texture = Some([id |-> tex,
                                    width |-> s.size.width,
                                    height |-> s.size.height,
                                    format |-> s.depth_texture_format])],
   steps |-> <<ConfigureStep(s.size), CreateTextureStep(s.size)>>]

\* State::new returning the State without the first configure_surface call.
State_new_unconfigured(n, size, swapchain_format, tex) ==
  [s |-> [window |-> n,
          device |-> n,
          queue |-> n,
          size |-> size,
          surface |-> [id |-> n, config |-> None],
          surface_format |-> swapchain_format,
          render_pipeline |-> [id |-> n, color |-> swapchain_format,
                               depth |-> Depth24PlusStencil8],
          data_buffer |-> [id |-> n, vertices |-> 3],
          depth_texture_format |-> Depth24PlusStencil8,
          depth_texture |-> None],
   steps |-> <<Step("create_surface"), Step("request_adapter"),
               Step("request_device"), Step("create_render_pipeline"),
               Step("create_buffer_init")>>]

\* State::new after its fallible calls succeeded: n names the window, device,
\* queue, surface, pipeline and buffer this construction creates.
State_new(n, size, swapchain_format, tex) ==
  LET s0 == [window |-> n,
             device |-> n,
             queue |-> n,
             size |-> size,
             surface |-> [id |-> n, config |-> None],
             surface_format |-> swapchain_format,
             render_pipeline |-> [id |-> n, color |-> swapchain_format,
                                  depth |-> Depth24PlusStencil8],
             data_buffer |-> [id |-> n, vertices |-> 3],
             depth_texture_format |-> Depth24PlusStencil8,
             depth_texture |-> None]
      c == configure_surface(s0, tex)
  IN [s |-> c.s,
      steps |-> <<Step("create_surface"), Step("request_adapter"),
                  Step("request_device"), Step("create_render_pipeline"),
                  Step("create_buffer_init")>> \o c.steps]

\* resize with its two statements swapped: reconfigure, then store the size.
resize_configureFirst(s, new_size, tex) ==
  LET c == configure_surface(s, tex)
  IN [s |-> [c.s EXCEPT !.size = new_size], steps |-> c.steps]

\* resize storing the size without reconfiguring.
resize_sizeOnly(s, new_size, tex) ==
  [s |-> [s EXCEPT !.size = new_size], steps |-> <<>>]

\* resize drawing the frame itself after reconfiguring.
resize_thenRender(s, new_size, tex) ==
  LET c == configure_surface([s EXCEPT !.size = new_size], tex)
  IN [s |-> c.s,
      steps |-> c.steps \o <<Step("get_current_texture"), Step("acquired"),
                             DrawStep(3, 1), Step("submit"),
                             Step("pre_present_notify"), Step("present")>>]

\* State::resize: store the new size, then reconfigure.
resize(s, new_size, tex) ==
  configure_surface([s EXCEPT !.size = new_size], tex)

\* render presenting the frame before the commands are submitted.
render_presentFirst(s, acq) ==
  IF acq # "Ok"
  THEN [ok |-> FALSE, panic |-> "failed to acquire next swapchain texture",
        steps |-> <<Step("render"), Step("get_current_texture")>>]
  ELSE [ok |-> TRUE, panic |-> "",
        steps |-> <<Step("render"), Step("get_current_texture"),
                    Step("acquired"), Step("create_command_encoder"),
                    Step("begin_render_pass"), Step("set_pipeline"),
                    Step("set_vertex_buffer"), DrawStep(3, 1),
                    Step("end_render_pass"), Step("pre_present_notify"),
                    Step("present"), Step("submit")>>]

\* render returning after the submission without presenting the frame.
render_noPresent(s, acq) ==
  IF acq # "Ok"
  THEN [ok |-> FALSE, panic |-> "failed to acquire next swapchain texture",
        steps |-> <<Step("render"), Step("get_current_texture")>>]
  ELSE [ok |-> TRUE, panic |-> "",
        steps |-> <<Step("render"), Step("get_current_texture"),
                    Step("acquired"), Step("create_command_encoder"),
                    Step("begin_render_pass"), Step("set_pipeline"),
                    Step("set_vertex_buffer"), DrawStep(3, 1),
                    Step("end_render_pass"), Step("submit"),
                    Step("pre_present_notify")>>]

\* render recording the pass without the draw call.
render_noDraw(s, acq) ==
  IF acq # "Ok"
  THEN [ok |-> FALSE, panic |-> "failed to acquire next swapchain texture",
        steps |-> <<Step("render"), Step("get_current_texture")>>]
  ELSE [ok |-> TRUE, panic |-> "",
        steps |-> <<Step("render"), Step("get_current_texture"),
                    Step("acquired"), Step("create_command_encoder"),
                    Step("begin_render_pass"), Step("set_pipeline"),
                    Step("set_vertex_buffer"),
                    Step("end_render_pass"), Step("submit"),
                    Step("pre_present_notify"), Step("present")>>]

\* State::render.  acq is what surface.get_current_texture() returns.
\* ok is FALSE when the call panics; steps lists what it did until then.
render(s, acq) ==
  IF acq # "Ok"
  THEN [ok |-> FALSE, panic |-> "failed to acquire next swapchain texture",
        steps |-> <<Step("render"), Step("get_current_texture")>>]
  ELSE IF s.depth_texture = None
  THEN [ok |-> FALSE, panic |-> "depth_texture is None",
        steps |-> <<Step("render"), Step("get_current_texture"),
                    Step("acquired"), Step("create_command_encoder")>>]
  ELSE [ok |-> TRUE, panic |-> "",
        steps |-> <<Step("render"), Step("get_current_texture"),
                    Step("acquired"), Step("create_command_encoder"),
                    Step("begin_render_pass"), Step("set_pipeline"),
                    Step("set_vertex_buffer"), DrawStep(3, 1),
                    Step("end_render_pass"), Step("submit"),
                    Step("pre_present_notify"), Step("present")>>]

\* ---------------------------------------------------------------- App
\* App::can_create_surfaces: create a window, block on State::new, store the
\* State (replacing whatever was there), request the first redraw.
can_create_surfaces(app, n, outcome, size, swapchain_format, tex) ==
  IF outcome = "WindowFailed"
  THEN Result(app, <<>>, "create_window failed")
  ELSE IF outcome = "SurfaceFailed"
  THEN Result(app, <<Step("create_window")>>, "create_surface failed")
  ELSE IF outcome = "AdapterUnavailable"
  THEN Result(app, <<Step("create_window"), Step("create_surface")>>,
              "request_adapter failed")
  ELSE IF outcome = "DeviceRequestFailed"
  THEN Result(app, <<Step("create_window"), Step("create_surface"),
                     Step("request_adapter")>>, "request_device failed")
  ELSE LET r == State_new(n, size, swapchain_format, tex)
       IN Result(Some(r.s),
                 <<Step("create_window")>> \o r.steps \o <<Step("request_redraw")>>,
                 "")

\* The match of App::window_event on the event, given the unwrapped State.
match_event(app, s, event, acq, tex) ==
  CASE event.kind = "CloseRequested" ->
         Result(app, <<Step("exit")>>, "")
    [] event.kind = "RedrawRequested" ->
         LET r == render(s, acq) IN
         IF r.ok
         THEN Result(app, r.steps \o <<Step("request_redraw")>>, "")
         ELSE Result(app, r.steps, r.panic)
    [] event.kind = "SurfaceResized" ->
         LET r == resize(s, event.size, tex) IN
         Result(Some(r.s), r.steps, "")
    [] OTHER -> Result(app, <<>>, "")

\* window_event returning silently while there is no State.
window_event_ignoreUninit(app, event, acq, tex) ==
  IF app = None
  THEN Result(app, <<>>, "")
  ELSE match_event(app, Unwrap(app), event, acq, tex)

\* App::window_event.  The unwrap of self.state comes before the match.
window_event(app, event, acq, tex) ==
  IF app = None
  THEN Result(app, <<>>, "state is None")
  ELSE match_event(app, Unwrap(app), event, acq, tex)

VARIABLES state, loop, exiting, abortCause, redrawPending, steps, count,
          lastEvent, prevState, reportedSize
vars == <<state, loop, exiting, abortCause, redrawPending, steps, count,
          lastEvent, prevState, reportedSize>>

\* ---------------------------------------------------------------- machine
\* state         App.state: None or Some(State)
\* loop          the host loop: "Dispatching", "Terminated" (run_app returned
\*               after exit) or "Aborted" (a handler panicked)
\* exiting       event_loop.exit() has been called
\* abortCause    the panic message, "" while none
\* redrawPending the window has an undelivered request_redraw
\* steps         the calls made by the handler that ran last, in order
\* count         how often each counted call was made so far
\* lastEvent     the event the handler that ran last was given
\* prevState     App.state as the handler that ran last found it
\* reportedSize  the size the window system reported last: surface_size() of
\*               the window at construction, or the last SurfaceResized size
Event(kind, size, acq) == [kind |-> kind, size |-> size, acquire |-> acq]

OtherEvents == {"Focused", "PointerMoved"}

Init ==
  /\ state = None
  /\ loop = "Dispatching"
  /\ exiting = FALSE
  /\ abortCause = ""
  /\ redrawPending = FALSE
  /\ steps = <<>>
  /\ count = [o \in CountedOps |-> 0]
  /\ lastEvent = Event("None", NoSize, "-")
  /\ prevState = None
  /\ reportedSize = NoSize

\* The effect of one handler call that returned r for event ev.
Apply(r, ev) ==
  /\ state' = r.state
  /\ steps' = r.steps
  /\ loop' = IF r.panic # "" THEN "Aborted" ELSE loop
  /\ abortCause' = IF r.panic # "" THEN r.panic ELSE abortCause
  /\ exiting' = (exiting \/ Has("exit", r.steps))
  /\ count' = [o \in CountedOps |-> count[o] + Occ(o, r.steps)]
  /\ redrawPending' = IF Has("request_redraw", r.steps) THEN TRUE
                      ELSE IF ev.kind = "RedrawRequested" THEN FALSE
                      ELSE redrawPending
  /\ lastEvent' = ev
  /\ prevState' = state

\* The host calls App::can_create_surfaces.
CanCreateSurfaces ==
  /\ loop = "Dispatching"
  /\ ~exiting
  /\ count["create_window"] < MaxInits
  /\ count["create_texture"] < MaxTextures
  /\ \E outcome \in InitOutcomes, size \in WindowSizes, fmt \in SwapchainFormats :
       LET r == can_create_surfaces(state, count["create_window"] + 1, outcome,
                                    size, fmt, count["create_texture"] + 1)
       IN /\ Apply(r, Event("CanCreateSurfaces", size, "-"))
          /\ reportedSize' = IF r.panic = "" THEN size ELSE reportedSize

\* The host calls App::window_event with event ev.
Dispatch(ev) ==
  /\ Apply(window_event(state, ev, ev.acquire, count["create_texture"] + 1), ev)
  /\ reportedSize' = IF ev.kind = "SurfaceResized" THEN ev.size ELSE reportedSize

CloseRequested ==
  /\ loop = "Dispatching"
  /\ Dispatch(Event("CloseRequested", NoSize, "-"))

RedrawRequested ==
  /\ loop = "Dispatching"
  /\ count["render"] < MaxRenders
  /\ \E acq \in AcquireResults : Dispatch(Event("RedrawRequested", NoSize, acq))

SurfaceResized ==
  /\ loop = "Dispatching"
  /\ count["create_texture"] < MaxTextures
  /\ \E size \in EventSizes : Dispatch(Event("SurfaceResized", size, "-"))

OtherEvent ==
  /\ loop = "Dispatching"
  /\ \E k \in OtherEvents : Dispatch(Event(k, NoSize, "-"))

\* run_app returns once exit was requested and the iteration is over.
LoopExit ==
  /\ loop = "Dispatching"
  /\ exiting
  /\ loop' = "Terminated"
  /\ UNCHANGED <<state, exiting, abortCause, redrawPending, steps, count,
                 lastEvent, prevState, reportedSize>>

Next ==
  \/ CanCreateSurfaces
  \/ CloseRequested
  \/ RedrawRequested
  \/ SurfaceResized
  \/ OtherEvent
  \/ LoopExit

Spec == Init /\ [][Next]_vars

\* ---------------------------------------------------------------- properties
\* The handler that ran last was given event kind k and found a State.
Handled(k) == lastEvent.kind = k /\ prevState # None

\* the acquisition errors the design calls recoverable
Recoverable == {"Timeout", "Outdated", "Lost"}

Config(s) == Unwrap(s.surface.config)
Depth(s) == Unwrap(s.depth_texture)

\* C1: resize(new_size) with new_size equal to the current size is a no-op:
\* the State is unchanged, the surface is not reconfigured and no depth
\* texture is created.
C1_ResizeSameSizeIsNoOp ==
  (Handled("SurfaceResized") /\ lastEvent.size = Unwrap(prevState).size)
    => /\ state = prevState
       /\ ~Has("surface.configure", steps)
       /\ ~Has("create_texture", steps)

\* C2: a render whose frame acquisition fails with SurfaceLost,
\* SurfaceOutdated or Timeout reconfigures the surface and the depth
\* attachment, leaves the draw to the next redraw, and the loop does not abort.
C2_RecoverableAcquireHandled ==
  (Handled("RedrawRequested") /\ lastEvent.acquire \in Recoverable)
    => /\ loop # "Aborted"
       /\ Has("surface.configure", steps)
       /\ Has("create_texture", steps)
       /\ ~Has("submit", steps)
       /\ redrawPending

\* C3: a render whose acquisition reports SurfaceOutdated submits nothing,
\* presents nothing, and leaves a State on which configure followed by a
\* render that acquires a frame succeeds.
C3_OutdatedLeavesUsableSurface ==
  (Handled("RedrawRequested") /\ lastEvent.acquire = "Outdated")
    => /\ ~Has("submit", steps)
       /\ ~Has("present", steps)
       /\ loop # "Aborted"
       /\ state # None
       /\ \A size \in WindowSizes :
            render(resize(Unwrap(state), size, count["create_texture"] + 1).s,
                   "Ok").ok

\* C4: whenever a State exists, the depth texture has the size of the
\* applied surface configuration, which is State.size, which is the size the
\* window system reported last; after a resize to a different size the depth
\* texture has exactly the new size and is a texture created by that resize.
C4_DepthMatchesSurface ==
  state # None =>
    LET s == Unwrap(state) IN
    /\ IsSome(s.surface.config)
    /\ IsSome(s.depth_texture)
    /\ PhysicalSize(Config(s).width, Config(s).height) = s.size
    /\ PhysicalSize(Depth(s).width, Depth(s).height) = s.size
    /\ s.size = reportedSize
    /\ (Handled("SurfaceResized") /\ lastEvent.size # Unwrap(prevState).size)
         => /\ PhysicalSize(Depth(s).width, Depth(s).height) = lastEvent.size
            /\ Depth(s).id # Depth(Unwrap(prevState)).id
            /\ Depth(s).id = count["create_texture"]

C4_Witness ==
  /\ Handled("SurfaceResized")
  /\ state # None
  /\ Unwrap(state).size # Unwrap(prevState).size
  /\ Unwrap(state).size = lastEvent.size

\* C5: every surface configuration applied and every depth texture created
\* has width > 0 and height > 0.
C5_ConfigurationPositive ==
  state # None =>
    LET s == Unwrap(state) IN
    /\ Config(s).width > 0 /\ Config(s).height > 0
    /\ Depth(s).width > 0 /\ Depth(s).height > 0

\* C6: in a render call the frame is acquired, the pass recorded, the
\* commands submitted, the window notified and the frame presented, in this
\* order; nothing is presented that was not submitted first, and a render
\* call that panics has submitted nothing.
C6_RenderOrder ==
  /\ \A p \in Positions("present", steps) :
       \E a, d, q, n \in 1..Len(steps) :
         /\ a < d /\ d < q /\ q < n /\ n < p
         /\ steps[a].op = "acquired"
         /\ steps[d].op = "end_render_pass"
         /\ steps[q].op = "submit"
         /\ steps[n].op = "pre_present_notify"
  /\ \A q \in Positions("submit", steps) :
       \E a, d \in 1..Len(steps) :
         /\ a < d /\ d < q
         /\ steps[a].op = "acquired"
         /\ steps[d].op = "draw"
  /\ Occ("present", steps) = Occ("submit", steps)
  /\ count["present"] = count["submit"]
  /\ (loop = "Aborted" /\ Has("render", steps)) => ~Has("submit", steps)

C6_Witness ==
  /\ Handled("RedrawRequested")
  /\ Has("present", steps)
  /\ count["present"] = MaxRenders

\* C7: once close-requested was handled, no render is executed and no redraw
\* request is issued, also when a redraw-requested event is still delivered.
C7_NoRenderAfterClose ==
  exiting => (~Has("render", steps) /\ ~Has("request_redraw", steps))

\* C8: a redraw-requested event handled while there is no State panics
\* without rendering, and render only runs on a State that is constructed and
\* configured.
C8_NoRenderBeforeInit ==
  /\ (lastEvent.kind = "RedrawRequested" /\ prevState = None)
       => /\ loop = "Aborted"
          /\ abortCause = "state is None"
          /\ steps = <<>>
          /\ count["render"] = 0
  /\ Has("render", steps)
       => /\ prevState # None
          /\ IsSome(Unwrap(prevState).surface.config)
          /\ IsSome(Unwrap(prevState).depth_texture)
  /\ count["render"] > 0 => (state # None /\ count["surface.configure"] > 0)

C8_Witness ==
  /\ lastEvent.kind = "RedrawRequested"
  /\ prevState = None
  /\ loop = "Aborted"

\* C9: the window, device, queue, surface, pipeline and vertex buffer are
\* constructed at most once, and an existing State is never replaced.
C9_InitializedOnce ==
  /\ count["create_window"] <= 1
  /\ count["request_device"] <= 1
  /\ count["create_render_pipeline"] <= 1
  /\ count["create_buffer_init"] <= 1
  /\ prevState # None
       => /\ state # None
          /\ Unwrap(state).window = Unwrap(prevState).window
          /\ Unwrap(state).device = Unwrap(prevState).device
          /\ Unwrap(state).queue = Unwrap(prevState).queue
          /\ Unwrap(state).surface.id = Unwrap(prevState).surface.id
          /\ Unwrap(state).render_pipeline = Unwrap(prevState).render_pipeline
          /\ Unwrap(state).data_buffer = Unwrap(prevState).data_buffer

\* C10: while Running, handling a redraw-requested event performs exactly one
\* render and then issues exactly one redraw request, so a redraw request is
\* pending whenever a State exists and close was not handled.
C10_ContinuousRepaint ==
  /\ (Handled("RedrawRequested") /\ ~exiting)
       => /\ Occ("render", steps) = 1
          /\ Occ("request_redraw", steps) = 1
          /\ steps[Len(steps)].op = "request_redraw"
  /\ (state # None /\ ~exiting) => redrawPending

\* C11: handling a resize event only reconfigures: it makes no render call,
\* acquires no frame, draws, submits and presents nothing and requests no
\* redraw, so the totals of submitted command sequences and presented frames
\* are what they were before it.
C11_ResizeOnlyReconfigures ==
  lastEvent.kind = "SurfaceResized" =>
    /\ \A op \in {"render", "get_current_texture", "acquired", "draw", "submit",
                  "pre_present_notify", "present", "request_redraw"} :
         ~Has(op, steps)
    /\ prevState # None =>
         steps = <<ConfigureStep(lastEvent.size), CreateTextureStep(lastEvent.size)>>
    /\ count["submit"] = count["present"]
    /\ count["submit"] = count["acquired"]
    /\ count["request_redraw"] = count["create_window"] + count["present"]

C11_Witness ==
  /\ Handled("SurfaceResized")
  /\ loop = "Dispatching"
  /\ Has("surface.configure", steps)
  /\ count["present"] > 0

\* C12: each successful render call records exactly one draw call, of 3
\* vertices and 1 instance, and submits exactly one command sequence; a
\* render call that panics records none; the total of draw calls is the
\* total of successful render calls.
C12_OneDrawPerRender ==
  /\ (Has("render", steps) /\ Has("present", steps))
       => /\ Occ("draw", steps) = 1
          /\ \A i \in Positions("draw", steps) : steps[i] = DrawStep(3, 1)
          /\ Occ("submit", steps) = 1
  /\ (Has("render", steps) /\ ~Has("present", steps))
       => (loop = "Aborted" /\ ~Has("draw", steps) /\ ~Has("submit", steps))
  /\ count["draw"] = count["present"]
  /\ count["submit"] = count["present"]
  /\ count["render"] - count["present"] \in {0, 1}
  /\ count["render"] # count["present"]
       => (loop = "Aborted" /\ Has("render", steps))

C12_Witness ==
  /\ Handled("RedrawRequested")
  /\ Has("draw", steps)
  /\ count["draw"] = MaxRenders
  /\ count["create_texture"] > 1

\* C13: a render call acquires its frame only from a surface that is
\* configured, and configured for the size of the last resize event handled:
\* the configuration and the depth texture in use are those of the most
\* recent configure_surface call, which came with the construction or with
\* the last resize.
C13_ConfiguredBeforeRender ==
  /\ Has("get_current_texture", steps)
       => /\ prevState # None
          /\ IsSome(Unwrap(prevState).surface.config)
          /\ PhysicalSize(Config(Unwrap(prevState)).width,
                          Config(Unwrap(prevState)).height) = reportedSize
          /\ Depth(Unwrap(prevState)).id = count["create_texture"]
  /\ count["surface.configure"] = count["create_texture"]
  /\ count["get_current_texture"] > 0 => count["surface.configure"] > 0

C13_Witness ==
  /\ Handled("RedrawRequested")
  /\ Has("acquired", steps)
  /\ count["surface.configure"] = MaxTextures
  /\ count["create_window"] = 1

\* C14: a window event other than close-requested, redraw-requested and
\* resize changes nothing, makes no call and does not abort the program,
\* also when it arrives while there is no State yet.
C14_OtherEventsIgnored ==
  lastEvent.kind \in OtherEvents =>
    /\ state = prevState
    /\ steps = <<>>
    /\ loop # "Aborted"

\* C16: every frame a render call acquires is presented once before the call
\* returns: a handler acquires at most one frame, presents it after acquiring
\* it, and between handlers no acquired frame is left unpresented.
C16_FrameEphemeral ==
  /\ Occ("acquired", steps) <= 1
  /\ Occ("present", steps) = Occ("acquired", steps)
  /\ \A a \in Positions("acquired", steps) :
       \E p \in Positions("present", steps) : a < p
  /\ count["acquired"] = count["present"]
  /\ Has("get_current_texture", steps)
       => (Has("acquired", steps) <=> lastEvent.acquire = "Ok")

C16_Witness ==
  /\ Has("acquired", steps)
  /\ Has("present", steps)
  /\ exiting = FALSE
  /\ count["acquired"] > 1

\* C17: in a State the formats never change: the applied configuration has
\* the color format the render pipeline was built with, the depth texture has
\* the pipeline's depth format, after the construction and after every
\* resize; a handler that keeps the State keeps its formats, and a resize
\* leaves device, queue, pipeline and vertex buffer as they were.
C17_FormatsFixed ==
  /\ state # None =>
       LET s == Unwrap(state) IN
       /\ Config(s).format = s.surface_format
       /\ Config(s).format = s.render_pipeline.color
       /\ Depth(s).format = s.depth_texture_format
       /\ Depth(s).format = s.render_pipeline.depth
  /\ (prevState # None /\ state # None
        /\ Unwrap(state).surface.id = Unwrap(prevState).surface.id)
       => /\ Unwrap(state).surface_format = Unwrap(prevState).surface_format
          /\ Unwrap(state).depth_texture_format
               = Unwrap(prevState).depth_texture_format
          /\ Config(Unwrap(state)).format = Config(Unwrap(prevState)).format
          /\ Depth(Unwrap(state)).format = Depth(Unwrap(prevState)).format
  /\ Handled("SurfaceResized")
       => /\ state # None
          /\ Unwrap(state).device = Unwrap(prevState).device
          /\ Unwrap(state).queue = Unwrap(prevState).queue
          /\ Unwrap(state).render_pipeline = Unwrap(prevState).render_pipeline
          /\ Unwrap(state).data_buffer = Unwrap(prevState).data_buffer
          /\ Unwrap(state).surface.id = Unwrap(prevState).surface.id

C17_Witness ==
  /\ Handled("SurfaceResized")
  /\ state # None
  /\ Unwrap(state).surface_format = "Rgba8Unorm"
  /\ Depth(Unwrap(state)).id > 1

\* C18: whenever render executes the depth texture is present: a State has
\* one from its construction on, no handler takes it away, and no panic
\* comes from the unwrap of the depth texture.
C18_DepthTexturePresent ==
  /\ state # None => IsSome(Unwrap(state).depth_texture)
  /\ prevState # None => IsSome(Unwrap(prevState).depth_texture)
  /\ abortCause # "depth_texture is None"
  /\ (Has("render", steps) /\ lastEvent.acquire = "Ok") => Has("present", steps)

C18_Witness ==
  /\ Has("render", steps)
  /\ lastEvent.acquire = "Ok"
  /\ Depth(Unwrap(state)).id = 1
====
